---- MODULE Spec2Model ----
(***************************************************************************)
(* Model of run_backup.py: the retention decision                          *)
(* (BackupApp.get_outdated_backup_dates), the run of one backup            *)
(* (BackupApp.run and the steps it calls) over the four storage backends,  *)
(* and the timeout watchdog of BackupApp.execute_script.                   *)
(***************************************************************************)
EXTENDS Integers, Sequences, FiniteSets, TLC

(***************************************************************************)
(* Bounds of the model.                                                    *)
(***************************************************************************)
\* largest number of (filename, ts) entries handed to the retention decision
MaxFiles == 3
\* largest number of periods in a retention_config
MaxPeriods == 2

\* seconds between two candidate timestamps (half a day)
StepSecs == 12 * 3600
\* the value of time.time() during the run (15200 s after a UTC midnight)
Now == 19676 * 86400 + 15200
\* ages, in steps of StepSecs, of the candidate timestamps: with Now as it is,
\* ages 3 and 4 fall in the same 24 h bucket and ages 2 and 5 in two others
AgeSteps == 2..5
\* values of older_days, interval_hours in the periods of a retention_config
OlderDaysValues == {1, 2}
IntervalHoursValues == {24}

(***************************************************************************)
(* The retention decision: BackupApp.get_outdated_backup_dates.            *)
(***************************************************************************)
\* dict.get(key, default)
DictGet(d, k, default) == IF k \in DOMAIN d THEN d[k] ELSE default

\* sorted(seq, key=...): Python's sort is stable and ascending; the result is
\* given as the sequence of indices of keys in sorted order
SortedOrder(keys) ==
  LET n == Len(keys)
      Rank(i) == 1 + Cardinality({j \in 1..n : keys[j] < keys[i]
                                                \/ (keys[j] = keys[i] /\ j < i)})
  IN [r \in 1..n |-> CHOOSE i \in 1..n : Rank(i) = r]

\* lines 249-252: each period gets its 'end', and its 'interval' when it has
\* an 'interval_hours'
AnnotatePeriod(period, now) ==
  LET keys == DOMAIN period \cup {"end"}
                \cup (IF "interval_hours" \in DOMAIN period THEN {"interval"} ELSE {})
  IN [k \in keys |->
        IF k = "end" THEN now - period.older_days * 24 * 3600
        ELSE IF k = "interval" THEN period.interval_hours * 3600
        ELSE period[k]]

\* line 253: the periods sorted by their 'end'
SortedPeriods(retention_config, now) ==
  LET annotated == [i \in 1..Len(retention_config) |->
                      AnnotatePeriod(retention_config[i], now)]
      order == SortedOrder([i \in 1..Len(annotated) |-> annotated[i].end])
  IN [r \in 1..Len(annotated) |-> annotated[order[r]]]

\* line 256: the entries sorted by their timestamp
SortedFiles(file_ts) ==
  LET order == SortedOrder([i \in 1..Len(file_ts) |-> file_ts[i][2]])
  IN [r \in 1..Len(file_ts) |-> file_ts[order[r]]]

\* the while loop with StopIteration swallowed: the last period is kept for
\* the entries that are newer than its 'end'
RECURSIVE AdvancePeriodKeepLast(_, _, _)
AdvancePeriodKeepLast(periods, p, ts) ==
  IF p = 0 \/ (p < Len(periods) /\ ts > periods[p].end)
    THEN AdvancePeriodKeepLast(periods, p + 1, ts)
    ELSE p

\* lines 257-262: the while loop; p is the position of current_period in the
\* sorted periods (0 for None), the result is the position it stops at, which
\* is past the last period when next() raised StopIteration
RECURSIVE AdvancePeriod(_, _, _)
AdvancePeriod(periods, p, ts) ==
  IF p = 0 \/ (p <= Len(periods) /\ ts > periods[p].end)
    THEN AdvancePeriod(periods, p + 1, ts)
    ELSE p

\* the walk with current_interval_n kept when the period changes (line 262
\* left out)
RECURSIVE WalkFilesNoReset(_, _, _, _, _, _)
WalkFilesNoReset(files, i, periods, p, current_interval_n, outdated) ==
  IF i > Len(files) THEN [raised |-> "none", outdated |-> outdated]
  ELSE
    LET ts == files[i][2]
        q == AdvancePeriod(periods, p, ts)
    IN IF q > Len(periods) THEN [raised |-> "none", outdated |-> outdated]
       ELSE IF ~DictGet(periods[q], "store", TRUE)
         THEN WalkFilesNoReset(files, i + 1, periods, q, current_interval_n,
                               Append(outdated, files[i]))
       ELSE IF "interval" \notin DOMAIN periods[q]
         THEN [raised |-> "KeyError", outdated |-> <<>>]
       ELSE
         LET interval_n == ts \div periods[q].interval
         IN IF <<interval_n>> = current_interval_n
              THEN WalkFilesNoReset(files, i + 1, periods, q, current_interval_n,
                                    Append(outdated, files[i]))
              ELSE WalkFilesNoReset(files, i + 1, periods, q, <<interval_n>>, outdated)

\* lines 256-271: the walk from entry i on; current_interval_n is <<>> for
\* None and <<n>> for the bucket n. The result tells what the call raised
\* and the list it returned.
RECURSIVE WalkFiles(_, _, _, _, _, _)
WalkFiles(files, i, periods, p, current_interval_n, outdated) ==
  IF i > Len(files) THEN [raised |-> "none", outdated |-> outdated]
  ELSE
    LET ts == files[i][2]
        q == AdvancePeriod(periods, p, ts)
        reset_n == IF q # p THEN <<>> ELSE current_interval_n
    IN IF q > Len(periods) THEN [raised |-> "none", outdated |-> outdated]
       ELSE IF ~DictGet(periods[q], "store", TRUE)
         THEN WalkFiles(files, i + 1, periods, q, reset_n, Append(outdated, files[i]))
       ELSE IF "interval" \notin DOMAIN periods[q]
         THEN [raised |-> "KeyError", outdated |-> <<>>]
       ELSE
         LET interval_n == ts \div periods[q].interval
         IN IF <<interval_n>> = reset_n
              THEN WalkFiles(files, i + 1, periods, q, reset_n, Append(outdated, files[i]))
              ELSE WalkFiles(files, i + 1, periods, q, <<interval_n>>, outdated)

\* the function marking every entry outdated whatever the rule list is
GetOutdatedBackupDatesAll(file_ts, retention_config, now) ==
  [raised |-> "none", outdated |-> SortedFiles(file_ts)]

\* get_outdated_backup_dates(file_ts, retention_config), with now = time.time()
GetOutdatedBackupDates(file_ts, retention_config, now) ==
  IF retention_config = <<>> THEN [raised |-> "none", outdated |-> <<>>]
  ELSE WalkFiles(SortedFiles(file_ts), 1, SortedPeriods(retention_config, now),
                 0, <<>>, <<>>)

(***************************************************************************)
(* Configuration and storages.                                             *)
(***************************************************************************)
\* largest number of entries of config['storages']
MaxStorages == 2

\* storage_classes
StorageTypes == {"local", "webdav", "rclone", "restic"}

\* the storage classes whose __init__ can raise: WebdavStorageBackend imports
\* easywebdav and connects, ResticStorageBackend runs restic snapshots / init
ConstructorCanFail(type) == type \in {"webdav", "restic"}

\* config['prefix'], config['suffix'], and the prefix of a file that is in
\* the storage but is no backup of this configuration
Prefix == "backup_"
Suffix == ".tar"
OtherPrefix == "notes_"

\* make_backup_filename: prefix + the time formatted to the second + suffix
MakeBackupFilename(now) == <<Prefix, now, Suffix>>

\* get_ts_from_backup_name: <<ts>> when the name parses against
\* prefix + datetime_format + suffix, <<>> for None
GetTsFromBackupName(s) ==
  IF s[1] = Prefix /\ s[3] = Suffix THEN <<s[2]>> ELSE <<>>

\* what every storage holds before the run: two backups of ages 3 and 4 steps
\* (1.5 and 2 days, same 24 h bucket) and a file that is no backup
InitialFiles ==
  {<<Prefix, Now - 3 * StepSecs, Suffix>>, <<Prefix, Now - 4 * StepSecs, Suffix>>,
   <<OtherPrefix, Now - 4 * StepSecs, Suffix>>}

\* the retention rule lists of the configurations of the run
GlobalRetentions ==
  {<<[older_days |-> 1, store |-> FALSE]>>,
   <<[older_days |-> 1, interval_hours |-> 24]>>,
   <<[older_days |-> 1]>>}
StorageRetentions == {<<>>, <<[older_days |-> 2, store |-> FALSE]>>}

\* a storage_config: its 'type' and, optionally, its 'retention'
StorageConfigs ==
  [type : StorageTypes] \cup [type : StorageTypes, retention : StorageRetentions]

\* self.config: 'storages' and, optionally, the global 'retention'
Configs ==
  LET storages == UNION {[1..n -> StorageConfigs] : n \in 0..MaxStorages}
  IN [storages : storages] \cup [storages : storages, retention : GlobalRetentions]

\* line 282: storage_config.get('retention') or self.config.get('retention');
\* <<>> stands for None as for the empty list, both are false for `or` and
\* for `not retention_config`
EffectiveRetention(storage_config, cfg) ==
  LET own == DictGet(storage_config, "retention", <<>>)
  IN IF own # <<>> THEN own ELSE DictGet(cfg, "retention", <<>>)

\* what execute_script gives its caller: it returns, or raises TimeoutError
\* or subprocess.CalledProcessError
ScriptOutcomes == {"return", "TimeoutError", "CalledProcessError"}

\* the states config['backup_file'] can be left in by a get_file that raised
GetFileFailureStates(type) ==
  CASE type = "local"  -> {"absent", "partial"}  \* shutil.copy straight to the path
    [] type = "webdav" -> {"absent"}             \* download to path.tmp, then rename
    [] type = "rclone" -> {"absent", "partial"}  \* shutil.move: rename, or copy across devices
    [] type = "restic" -> {"absent", "partial"}  \* open(path, 'wb'), then dump into it

(***************************************************************************)
(* State.                                                                  *)
(***************************************************************************)
VARIABLES
  \* the retention decision taken alone
  r_file_ts,          \* argument file_ts: a sequence of <<filename, ts>>
  r_retention_config, \* argument retention_config: a sequence of periods
  r_result,           \* <<>> before the call, then <<what the call gave>>
  \* one run of BackupApp.run
  config,             \* self.config
  pc,                 \* where run() is
  idx,                \* position of the loop over config['storages']
  dest_filename,      \* <<>>, then <<the name made by upload_backup>>
  errors,             \* upload_backup's errors: the storages whose put_file raised
  to_delete,          \* the outdated names delete_old_backups still has to delete
  remote,             \* the names each storage holds
  backup_file,        \* the file at config['backup_file']: absent, complete, partial
  success_timestamp_file, \* unchanged, written or truncated by this run
  outcome,            \* running, ended, or the exception run() raised
  exception_logged,   \* run() logged the exception it re-raises
  calls,              \* history: the calls made so far, in order
  \* one call of BackupApp.execute_script: main thread, timer thread, process
  e_main,             \* where execute_script is
  e_timer,            \* where the thread of the Timer is
  e_proc,             \* the process p: running, zombie (exited, not waited for), reaped
  e_status,           \* <<>>, then <<the exit status of the process>>
  e_returncode,       \* p.returncode: <<>> for None, then <<the status>>
  e_finished,         \* the Timer's event `finished`, set by cancel()
  e_hit_timeout,      \* hit_timeout['value']
  e_pending,          \* communicate() raised: the exception passes through finally
  e_result,           \* none, return, or the exception execute_script raised
  e_history,          \* history: what happened in this call
  \* calls of put_file and get_file of one RcloneStorageBackend
  rc_pc,              \* where the call is: idle between two calls
  rc_op,              \* none, put_file or get_file
  rc_temp_dir,        \* the local temp_dir: 0 before mkdtemp returned
  rc_dirs,            \* the temporary directories that exist
  rc_staged,          \* the temporary directories that hold a file
  rc_pending,         \* the exception passing through finally, or none
  rc_log              \* history: the calls that are over, in order

retention_vars == <<r_file_ts, r_retention_config, r_result>>
run_vars == <<config, pc, idx, dest_filename, errors, to_delete, remote,
              backup_file, success_timestamp_file, outcome, exception_logged, calls>>
exec_vars == <<e_main, e_timer, e_proc, e_status, e_returncode, e_finished,
               e_hit_timeout, e_pending, e_result, e_history>>
rclone_vars == <<rc_pc, rc_op, rc_temp_dir, rc_dirs, rc_staged, rc_pending, rc_log>>
vars == <<retention_vars, run_vars, exec_vars, rclone_vars>>

\* no call of the rclone storage is going on: the specifications of the
\* run take the outcome of put_file and get_file from their sets of results
RcloneIdle ==
  /\ rc_pc = "idle"
  /\ rc_op = "none"
  /\ rc_temp_dir = 0
  /\ rc_dirs = {}
  /\ rc_staged = {}
  /\ rc_pending = "none"
  /\ rc_log = <<>>

\* execute_script is not called in the specifications of the retention
\* decision and of the run, which take its outcome from ScriptOutcomes
ExecIdle ==
  /\ e_main = "idle"
  /\ e_timer = "unstarted"
  /\ e_proc = "none"
  /\ e_status = <<>>
  /\ e_returncode = <<>>
  /\ e_finished = FALSE
  /\ e_hit_timeout = FALSE
  /\ e_pending = FALSE
  /\ e_result = "none"
  /\ e_history = {}

\* an entry of the history
\* (res is "ok" or the exception the call raised)
Call(op, storage, arg, res) == [op |-> op, storage |-> storage, arg |-> arg, res |-> res]

NumStorages == Len(config.storages)
StorageType(i) == config.storages[i].type

(***************************************************************************)
(* The retention decision taken alone.                                     *)
(***************************************************************************)
\* the periods a retention_config may hold: 'older_days' always, and
\* 'interval_hours' and 'store' each present or not
PeriodSet ==
  [older_days : OlderDaysValues]
    \cup [older_days : OlderDaysValues, interval_hours : IntervalHoursValues]
    \cup [older_days : OlderDaysValues, store : BOOLEAN]
    \cup [older_days : OlderDaysValues, interval_hours : IntervalHoursValues, store : BOOLEAN]

RetentionConfigs == UNION {[1..n -> PeriodSet] : n \in 0..MaxPeriods}

Timestamps == {Now - a * StepSecs : a \in AgeSteps}

\* entries with the filenames 1..n
FileLists ==
  UNION {{[i \in 1..n |-> <<i, tss[i]>>] : tss \in [1..n -> Timestamps]} : n \in 0..MaxFiles}

\* the run is not started in the specification of the retention decision
RunIdle ==
  /\ config = [storages |-> <<>>]
  /\ pc = "idle"
  /\ idx = 0
  /\ dest_filename = <<>>
  /\ errors = <<>>
  /\ to_delete = <<>>
  /\ remote = <<>>
  /\ backup_file = "absent"
  /\ success_timestamp_file = "unchanged"
  /\ outcome = "running"
  /\ exception_logged = FALSE
  /\ calls = <<>>

RetentionInit ==
  /\ r_file_ts \in FileLists
  /\ r_retention_config \in RetentionConfigs
  /\ r_result = <<>>
  /\ RunIdle
  /\ ExecIdle
  /\ RcloneIdle

CallGetOutdated ==
  /\ r_result = <<>>
  /\ r_result' = <<GetOutdatedBackupDates(r_file_ts, r_retention_config, Now)>>
  /\ UNCHANGED <<r_file_ts, r_retention_config, run_vars, exec_vars, rclone_vars>>

RetentionNext == CallGetOutdated

SpecRetention == RetentionInit /\ [][RetentionNext]_vars

(***************************************************************************)
(* One run of BackupApp.run.                                               *)
(***************************************************************************)
RECURSIVE SeqOfSet(_)
\* a listing of the names a storage holds; the order of a listing is not
\* specified, and the names that parse have pairwise distinct timestamps, so
\* the order does not reach the retention decision
SeqOfSet(S) ==
  IF S = {} THEN <<>>
  ELSE LET x == CHOOSE y \in S : TRUE IN <<x>> \o SeqOfSet(S \ {x})

\* lines 277-281: the names that parse, each with its timestamp
RECURSIVE FileDates(_)
FileDates(filenames) ==
  IF filenames = <<>> THEN <<>>
  ELSE LET file_ts == GetTsFromBackupName(Head(filenames))
       IN (IF file_ts # <<>> THEN <<<<Head(filenames), file_ts[1]>>>> ELSE <<>>)
            \o FileDates(Tail(filenames))

RunInit ==
  /\ config \in Configs
  /\ pc = "start"
  /\ idx = 0
  /\ dest_filename = <<>>
  /\ errors = <<>>
  /\ to_delete = <<>>
  /\ remote = [i \in 1..Len(config.storages) |-> InitialFiles]
  /\ backup_file = "absent"
  /\ success_timestamp_file = "unchanged"
  /\ outcome = "running"
  /\ exception_logged = FALSE
  /\ calls = <<>>
  /\ r_file_ts = <<>>
  /\ r_retention_config = <<>>
  /\ r_result = <<>>
  /\ ExecIdle
  /\ RcloneIdle

\* lines 303-305: an exception leaves run(): it is logged and raised again
Raised(kind) ==
  /\ outcome' = kind
  /\ exception_logged' = TRUE
  /\ pc' = "done"

\* get_storage raises: the constructor of the storage class failed
GetStorageRaises ==
  /\ ConstructorCanFail(StorageType(idx))
  /\ calls' = Append(calls, Call("get_storage", idx, <<>>, "StorageException"))
  /\ Raised("StorageException")

\* the exception of the prepare script is swallowed and the run goes on
PrepareRaisedSwallowed(o) ==
  /\ pc' = "upload_begin"
  /\ UNCHANGED <<outcome, exception_logged>>

\* lines 297 and 303-305: the prepare script raised: nothing catches it before
\* the except clause of run()
PrepareRaised(o) == Raised(o)

\* lines 296-297: the prepare script; a script that fails may leave a part of
\* the file it was to produce
Prepare ==
  /\ pc = "start"
  /\ \E o \in ScriptOutcomes :
       /\ calls' = Append(calls, Call("execute_script", 0, "prepare_backup", IF o = "return" THEN "ok" ELSE o))
       /\ IF o = "return"
            THEN /\ backup_file' = "complete"
                 /\ pc' = "upload_begin"
                 /\ UNCHANGED <<outcome, exception_logged>>
            ELSE /\ backup_file' \in {"absent", "partial"}
                 /\ PrepareRaised(o)
  /\ UNCHANGED <<config, idx, dest_filename, errors, to_delete, remote,
                 success_timestamp_file, retention_vars, exec_vars, rclone_vars>>

\* lines 215-216
UploadBegin ==
  /\ pc = "upload_begin"
  /\ dest_filename' = <<MakeBackupFilename(Now)>>
  /\ errors' = <<>>
  /\ idx' = 1
  /\ pc' = "upload"
  /\ UNCHANGED <<config, to_delete, remote, backup_file, success_timestamp_file,
                 outcome, exception_logged, calls, retention_vars, exec_vars, rclone_vars>>

\* put_file raised and the exception is left to propagate
PutFileRaisedUncaught ==
  /\ Raised("StorageException")
  /\ UNCHANGED <<errors, idx>>

\* lines 222-223: put_file raised; the traceback is kept and the loop goes on
PutFileRaised ==
  /\ errors' = Append(errors, idx)
  /\ idx' = idx + 1
  /\ UNCHANGED <<pc, outcome, exception_logged>>

\* lines 217-223: one turn of the loop of upload_backup; a put_file of the
\* local storage that raises may have written a part of the file already
UploadPut ==
  /\ pc = "upload"
  /\ idx <= NumStorages
  /\ \/ /\ GetStorageRaises
        /\ UNCHANGED <<errors, idx, remote>>
     \/ \E ok \in BOOLEAN :
          /\ calls' = calls \o <<Call("get_storage", idx, <<>>, "ok"),
                                 Call("put_file", idx, dest_filename[1],
                                      IF ok THEN "ok" ELSE "StorageException")>>
          /\ IF ok
               THEN /\ remote' = [remote EXCEPT ![idx] = @ \cup {dest_filename[1]}]
                    /\ idx' = idx + 1
                    /\ UNCHANGED <<errors, pc, outcome, exception_logged>>
               ELSE /\ \/ remote' = remote
                       \/ /\ StorageType(idx) = "local"
                          /\ remote' = [remote EXCEPT ![idx] = @ \cup {dest_filename[1]}]
                    /\ PutFileRaised
  /\ UNCHANGED <<config, dest_filename, to_delete, backup_file,
                 success_timestamp_file, retention_vars, exec_vars, rclone_vars>>

\* the end of upload_backup with the errors dropped
UploadEndNoRaise ==
  /\ pc = "upload"
  /\ idx = NumStorages + 1
  /\ pc' = "prune"
  /\ idx' = 1
  /\ UNCHANGED <<outcome, exception_logged>>
  /\ UNCHANGED <<config, dest_filename, errors, to_delete, remote, backup_file,
                 success_timestamp_file, calls, retention_vars, exec_vars, rclone_vars>>

\* lines 224-227 and 298: the end of upload_backup
UploadEnd ==
  /\ pc = "upload"
  /\ idx = NumStorages + 1
  /\ IF errors # <<>>
       THEN /\ Raised("UploadException")
            /\ UNCHANGED idx
       ELSE /\ pc' = "prune"
            /\ idx' = 1
            /\ UNCHANGED <<outcome, exception_logged>>
  /\ UNCHANGED <<config, dest_filename, errors, to_delete, remote, backup_file,
                 success_timestamp_file, calls, retention_vars, exec_vars, rclone_vars>>

\* lines 274-284: one turn of the loop of delete_old_backups up to the call
\* of get_outdated_backup_dates
PruneList ==
  /\ pc = "prune"
  /\ idx <= NumStorages
  /\ \/ /\ GetStorageRaises
        /\ UNCHANGED <<idx, to_delete>>
     \/ /\ calls' = calls \o <<Call("get_storage", idx, <<>>, "ok"),
                               Call("list_files", idx, <<>>, "StorageException")>>
        /\ Raised("StorageException")
        /\ UNCHANGED <<idx, to_delete>>
     \/ LET filenames == SeqOfSet(remote[idx])
            retention_config == EffectiveRetention(config.storages[idx], config)
            got == GetOutdatedBackupDates(FileDates(filenames), retention_config, Now)
        IN /\ calls' = calls \o <<Call("get_storage", idx, <<>>, "ok"),
                                  Call("list_files", idx, <<>>, "ok"),
                                  Call("get_outdated_backup_dates", idx, got.outdated,
                                       IF got.raised = "none" THEN "ok" ELSE got.raised)>>
           /\ IF got.raised # "none"
                THEN /\ Raised(got.raised)
                     /\ UNCHANGED <<idx, to_delete>>
                ELSE /\ to_delete' = [k \in 1..Len(got.outdated) |-> got.outdated[k][1]]
                     /\ IF got.outdated = <<>>
                          THEN idx' = idx + 1 /\ pc' = "prune"
                          ELSE idx' = idx /\ pc' = "prune_delete"
                     /\ UNCHANGED <<outcome, exception_logged>>
  /\ UNCHANGED <<config, dest_filename, errors, remote, backup_file,
                 success_timestamp_file, retention_vars, exec_vars, rclone_vars>>

\* delete_file of a restic storage deleting like the other storages
DeleteFileResultsRestic(type) == {"ok", "StorageException"}

\* what delete_file gives its caller: lines 122-123, the restic storage
\* raises NotImplementedError and does nothing else; the other storages
\* return or raise (lines 39-40, 60-62, 167-170)
DeleteFileResults(type) ==
  IF type = "restic" THEN {"NotImplementedError"} ELSE {"ok", "StorageException"}

\* lines 284-286: one turn of the loop over the outdated names. The rclone
\* storage can raise after the file was deleted (its cleanup command fails)
PruneDelete ==
  /\ pc = "prune_delete"
  /\ LET filename == Head(to_delete)
         type == StorageType(idx)
     IN \E res \in DeleteFileResults(type) :
          /\ calls' = Append(calls, Call("delete_file", idx, filename, res))
          /\ IF res = "ok"
               THEN /\ remote' = [remote EXCEPT ![idx] = @ \ {filename}]
                    /\ to_delete' = Tail(to_delete)
                    /\ IF Tail(to_delete) = <<>>
                         THEN idx' = idx + 1 /\ pc' = "prune"
                         ELSE idx' = idx /\ pc' = "prune_delete"
                    /\ UNCHANGED <<outcome, exception_logged>>
               ELSE /\ \/ remote' = remote
                       \/ /\ type = "rclone"
                          /\ remote' = [remote EXCEPT ![idx] = @ \ {filename}]
                    /\ Raised(res)
                    /\ UNCHANGED <<idx, to_delete>>
  /\ UNCHANGED <<config, dest_filename, errors, backup_file,
                 success_timestamp_file, retention_vars, exec_vars, rclone_vars>>

\* line 299: delete_old_backups returns
PruneEnd ==
  /\ pc = "prune"
  /\ idx = NumStorages + 1
  /\ pc' = "verify"
  /\ idx' = 1
  /\ UNCHANGED <<config, dest_filename, errors, to_delete, remote, backup_file,
                 success_timestamp_file, outcome, exception_logged, calls,
                 retention_vars, exec_vars, rclone_vars>>

\* cleanup with the os.unlink of line 292 left out
CleanupFileKeeps(state) == state

\* lines 288-292: what cleanup() makes of the file at config['backup_file']:
\* it is removed if it exists
CleanupFile(state) == IF state # "absent" THEN "absent" ELSE state

\* lines 230-234: one turn of the loop of verify_backup up to the download:
\* get_storage, then cleanup()
VerifyCleanup ==
  /\ pc = "verify"
  /\ idx <= NumStorages
  /\ \/ /\ GetStorageRaises
        /\ UNCHANGED backup_file
     \/ /\ calls' = calls \o <<Call("get_storage", idx, <<>>, "ok"),
                               Call("cleanup", idx, backup_file, "ok")>>
        /\ backup_file' = CleanupFile(backup_file)
        /\ pc' = "verify_download"
        /\ UNCHANGED <<outcome, exception_logged>>
  /\ UNCHANGED <<config, idx, dest_filename, errors, to_delete, remote,
                 success_timestamp_file, retention_vars, exec_vars, rclone_vars>>

\* line 235: the download of one turn of the loop of verify_backup
VerifyGet ==
  /\ pc = "verify_download"
  /\ \/ /\ dest_filename[1] \in remote[idx]
        /\ calls' = Append(calls, Call("get_file", idx, dest_filename[1], "ok"))
        /\ backup_file' = "complete"
        /\ pc' = "verify_script"
        /\ UNCHANGED <<outcome, exception_logged>>
     \/ /\ calls' = Append(calls, Call("get_file", idx, dest_filename[1], "StorageException"))
        /\ backup_file' \in GetFileFailureStates(StorageType(idx))
        /\ Raised("StorageException")
  /\ UNCHANGED <<config, idx, dest_filename, errors, to_delete, remote,
                 success_timestamp_file, retention_vars, exec_vars, rclone_vars>>

\* the verification failed and the loop goes on with the next storage
VerifyFailedContinue ==
  /\ pc' = "verify"
  /\ idx' = idx + 1

\* the verification failed and the loop is left by break
VerifyFailedBreak ==
  /\ pc' = "verify"
  /\ idx' = NumStorages + 1

\* lines 238-240: the verification failed: it is logged and verify_backup
\* returns
VerifyFailed ==
  /\ pc' = "cleanup"
  /\ idx' = idx

\* lines 236-240: the verify script of one turn of the loop
VerifyScript ==
  /\ pc = "verify_script"
  /\ \E o \in ScriptOutcomes :
       /\ calls' = Append(calls, Call("execute_script", idx, "verify", IF o = "return" THEN "ok" ELSE o))
       /\ IF o = "return"
            THEN pc' = "verify" /\ idx' = idx + 1
            ELSE VerifyFailed
  /\ UNCHANGED <<config, dest_filename, errors, to_delete, remote, backup_file,
                 success_timestamp_file, outcome, exception_logged, retention_vars, exec_vars, rclone_vars>>

\* lines 241-242: the loop is over: the success timestamp is written; open()
\* can raise, and so can write() after open() has truncated the file
VerifyEnd ==
  /\ pc = "verify"
  /\ idx = NumStorages + 1
  /\ \/ /\ success_timestamp_file' = "written"
        /\ calls' = Append(calls, Call("write_success_timestamp", 0, <<>>, "ok"))
        /\ pc' = "cleanup"
        /\ UNCHANGED <<outcome, exception_logged>>
     \/ /\ success_timestamp_file' \in {success_timestamp_file, "truncated"}
        /\ calls' = Append(calls, Call("write_success_timestamp", 0, <<>>, "IOError"))
        /\ Raised("IOError")
  /\ UNCHANGED <<config, idx, dest_filename, errors, to_delete, remote, backup_file,
                 retention_vars, exec_vars, rclone_vars>>

\* lines 301-302 and 288-292: the cleanup that ends the run
Cleanup ==
  /\ pc = "cleanup"
  /\ calls' = Append(calls, Call("cleanup", 0, backup_file, "ok"))
  /\ backup_file' = CleanupFile(backup_file)
  /\ outcome' = "ended"
  /\ pc' = "done"
  /\ UNCHANGED <<config, idx, dest_filename, errors, to_delete, remote,
                 success_timestamp_file, exception_logged, retention_vars, exec_vars, rclone_vars>>

Next ==
  \/ Prepare
  \/ UploadBegin
  \/ UploadPut
  \/ UploadEnd
  \/ PruneList
  \/ PruneDelete
  \/ PruneEnd
  \/ VerifyCleanup
  \/ VerifyGet
  \/ VerifyScript
  \/ VerifyEnd
  \/ Cleanup

Spec == RunInit /\ [][Next]_vars

(***************************************************************************)
(* The retention decision called alone or by the prune step of a run.      *)
(***************************************************************************)
\* get_outdated_backup_dates called while no run is going on
CallAlone == pc = "idle" /\ CallGetOutdated

InitAloneOrRun == RetentionInit \/ RunInit

NextAloneOrRun == CallAlone \/ Next

SpecAloneOrRun == InitAloneOrRun /\ [][NextAloneOrRun]_vars

(***************************************************************************)
(* One call of BackupApp.execute_script: the main thread, the thread of    *)
(* threading.Timer and the process of the script.                          *)
(***************************************************************************)
\* the exit statuses of a script that ends by itself; SIGKILL gives -9
ExitStatuses == {0, 1}
KilledStatus == 0 - 9

\* line 330 done: Popen has started the script
ExecInit ==
  /\ e_main = "start_timer"
  /\ e_timer = "unstarted"
  /\ e_proc = "running"
  /\ e_status = <<>>
  /\ e_returncode = <<>>
  /\ e_finished = FALSE
  /\ e_hit_timeout = FALSE
  /\ e_pending = FALSE
  /\ e_result = "none"
  /\ e_history = {}
  /\ RunIdle
  /\ r_file_ts = <<>>
  /\ r_retention_config = <<>>
  /\ r_result = <<>>
  /\ RcloneIdle

ExecDone == e_main \in {"returned", "raised"}
\* the timeout has elapsed: the wait of the timer thread has timed out
TimeoutElapsed == "timeout_elapsed" \in e_history

\* the script ends by itself
ProcExit ==
  /\ e_proc = "running"
  /\ \E st \in ExitStatuses :
       /\ e_status' = <<st>>
       /\ e_history' = e_history \cup
            (IF st = 0 /\ ~TimeoutElapsed THEN {"exit0_before_timeout"} ELSE {})
  /\ e_proc' = "zombie"
  /\ UNCHANGED <<e_main, e_timer, e_returncode, e_finished, e_hit_timeout,
                 e_pending, e_result, retention_vars, run_vars, rclone_vars>>

\* line 339: timer.start()
StartTimer ==
  /\ e_main = "start_timer"
  /\ e_timer' = "waiting"
  /\ e_main' = "communicate"
  /\ UNCHANGED <<e_proc, e_status, e_returncode, e_finished, e_hit_timeout,
                 e_pending, e_result, e_history, retention_vars, run_vars, rclone_vars>>

\* line 340: communicate() returns once the process has ended, and has waited
\* for it: p.returncode is set
Communicate ==
  /\ e_main = "communicate"
  /\ e_proc = "zombie"
  /\ e_proc' = "reaped"
  /\ e_returncode' = e_status
  /\ e_main' = "cancel"
  /\ UNCHANGED <<e_timer, e_status, e_finished, e_hit_timeout, e_pending,
                 e_result, e_history, retention_vars, run_vars, rclone_vars>>

\* line 340: communicate() raises while it waits
CommunicateRaises ==
  /\ e_main = "communicate"
  /\ e_pending' = TRUE
  /\ e_main' = "cancel"
  /\ UNCHANGED <<e_timer, e_proc, e_status, e_returncode, e_finished,
                 e_hit_timeout, e_result, e_history, retention_vars, run_vars, rclone_vars>>

\* lines 341-342: finally: timer.cancel() sets the event `finished`; an
\* exception of communicate() goes on to the caller
Cancel ==
  /\ e_main = "cancel"
  /\ e_finished' = TRUE
  /\ IF e_pending
       THEN e_main' = "raised" /\ e_result' = "WaitException"
       ELSE e_main' = "check_flag" /\ e_result' = e_result
  /\ UNCHANGED <<e_timer, e_proc, e_status, e_returncode, e_hit_timeout,
                 e_pending, e_history, retention_vars, run_vars, rclone_vars>>

\* lines 343-345
CheckFlag ==
  /\ e_main = "check_flag"
  /\ IF e_hit_timeout
       THEN e_main' = "raised" /\ e_result' = "TimeoutError"
       ELSE e_main' = "check_returncode" /\ e_result' = e_result
  /\ UNCHANGED <<e_timer, e_proc, e_status, e_returncode, e_finished,
                 e_hit_timeout, e_pending, e_history, retention_vars, run_vars, rclone_vars>>

\* lines 346-348
CheckReturncode ==
  /\ e_main = "check_returncode"
  /\ IF e_returncode # <<0>>
       THEN e_main' = "raised" /\ e_result' = "CalledProcessError"
       ELSE e_main' = "returned" /\ e_result' = "return"
  /\ UNCHANGED <<e_timer, e_proc, e_status, e_returncode, e_finished,
                 e_hit_timeout, e_pending, e_history, retention_vars, run_vars, rclone_vars>>

\* Timer.run: self.finished.wait(self.interval) times out
TimerTimeout ==
  /\ e_timer = "waiting"
  /\ ~e_finished
  /\ e_timer' = "woken"
  /\ e_history' = e_history \cup {"timeout_elapsed"}
                    \cup (IF e_proc = "running" THEN {"timeout_while_running"} ELSE {})
  /\ UNCHANGED <<e_main, e_proc, e_status, e_returncode, e_finished,
                 e_hit_timeout, e_pending, e_result, retention_vars, run_vars, rclone_vars>>

\* Timer.run: self.finished.wait(self.interval) returns because of cancel()
TimerCancelled ==
  /\ e_timer = "waiting"
  /\ e_finished
  /\ e_timer' = "woken"
  /\ UNCHANGED <<e_main, e_proc, e_status, e_returncode, e_finished,
                 e_hit_timeout, e_pending, e_result, e_history, retention_vars, run_vars, rclone_vars>>

\* Timer.run: if not self.finished.is_set(): self.function()
TimerCheck ==
  /\ e_timer = "woken"
  /\ e_timer' = IF e_finished THEN "ended" ELSE "kill"
  /\ UNCHANGED <<e_main, e_proc, e_status, e_returncode, e_finished,
                 e_hit_timeout, e_pending, e_result, e_history, retention_vars, run_vars, rclone_vars>>

\* line 334: p.kill() is os.kill(p.pid, SIGKILL): it ends a running process,
\* does nothing to a zombie, and for a pid already waited for it raises
\* OSError in the timer thread or reaches whatever process has the pid now
TimerKill ==
  /\ e_timer = "kill"
  /\ \/ /\ e_proc = "running"
        /\ e_proc' = "zombie"
        /\ e_status' = <<KilledStatus>>
        /\ e_timer' = "set_flag"
        /\ e_history' = e_history \cup {"killed_running"}
                          \cup (IF ExecDone THEN {"callback_after_return"} ELSE {})
     \/ /\ e_proc = "zombie"
        /\ e_timer' = "set_flag"
        /\ e_history' = e_history \cup {"kill_after_exit"}
                          \cup (IF ExecDone THEN {"callback_after_return"} ELSE {})
        /\ UNCHANGED <<e_proc, e_status>>
     \/ /\ e_proc = "reaped"
        /\ e_timer' \in {"set_flag", "died"}
        /\ e_history' = e_history \cup {"kill_after_exit"}
                          \cup (IF ExecDone THEN {"callback_after_return"} ELSE {})
        /\ UNCHANGED <<e_proc, e_status>>
  /\ UNCHANGED <<e_main, e_returncode, e_finished, e_hit_timeout, e_pending,
                 e_result, retention_vars, run_vars, rclone_vars>>

\* line 335, and the end of Timer.run: self.finished.set()
TimerSetFlag ==
  /\ e_timer = "set_flag"
  /\ e_hit_timeout' = TRUE
  /\ e_finished' = TRUE
  /\ e_timer' = "ended"
  /\ e_history' = e_history \cup (IF ExecDone THEN {"callback_after_return"} ELSE {})
  /\ UNCHANGED <<e_main, e_proc, e_status, e_returncode, e_pending, e_result,
                 retention_vars, run_vars, rclone_vars>>

ExecNext ==
  \/ ProcExit
  \/ StartTimer
  \/ Communicate
  \/ CommunicateRaises
  \/ Cancel
  \/ CheckFlag
  \/ CheckReturncode
  \/ TimerTimeout
  \/ TimerCancelled
  \/ TimerCheck
  \/ TimerKill
  \/ TimerSetFlag

SpecExec == ExecInit /\ [][ExecNext]_vars

(***************************************************************************)
(* Calls of put_file and get_file of one RcloneStorageBackend, step by     *)
(* step: the temporary directory of tempfile.mkdtemp and the try/finally   *)
(* around the body.                                                        *)
(***************************************************************************)
\* the number of calls made on the storage
MaxRcloneCalls == 3

RcloneOps == {"put_file", "get_file"}

\* an entry of rc_log: the call, the directory mkdtemp gave it (0 if mkdtemp
\* raised), the step that raised (none if it returned) and the exception
RcloneDone(op, temp_dir, at, res) == [op |-> op, temp_dir |-> temp_dir, at |-> at, res |-> res]

RcloneInit ==
  /\ RcloneIdle
  /\ RunIdle
  /\ ExecIdle
  /\ r_file_ts = <<>>
  /\ r_retention_config = <<>>
  /\ r_result = <<>>

\* lines 155 and 173: temp_dir = tempfile.mkdtemp(), before the try: it
\* makes a new directory, or raises OSError and makes none
RcloneMkdtemp ==
  /\ rc_pc = "idle"
  /\ Len(rc_log) < MaxRcloneCalls
  /\ \E op \in RcloneOps :
       \/ /\ rc_log' = Append(rc_log, RcloneDone(op, 0, "mkdtemp", "OSError"))
          /\ UNCHANGED <<rc_pc, rc_op, rc_temp_dir, rc_dirs>>
       \/ LET d == Len(rc_log) + 1
          IN /\ rc_op' = op
             /\ rc_temp_dir' = d
             /\ rc_dirs' = rc_dirs \cup {d}
             /\ rc_pc' = IF op = "put_file" THEN "copy" ELSE "run_command"
             /\ UNCHANGED rc_log
  /\ UNCHANGED <<rc_staged, rc_pending, retention_vars, run_vars, exec_vars>>

\* line 157: shutil.copy of the backup into temp_dir; when it raises, a part
\* of the file can be there
RcloneCopy ==
  /\ rc_pc = "copy"
  /\ \/ /\ rc_staged' = rc_staged \cup {rc_temp_dir}
        /\ rc_pc' = "run_command"
        /\ UNCHANGED rc_pending
     \/ /\ rc_staged' \in {rc_staged, rc_staged \cup {rc_temp_dir}}
        /\ rc_pending' = "IOError"
        /\ rc_pc' = "finally_copy"
  /\ UNCHANGED <<rc_op, rc_temp_dir, rc_dirs, rc_log, retention_vars, run_vars, exec_vars>>

\* lines 158-159 and 175, with _run_command (lines 145-152): rclone copies
\* from temp_dir to the remote (put_file) or from the remote into temp_dir
\* (get_file); a non-zero exit status raises Exception
RcloneRunCommand ==
  /\ rc_pc = "run_command"
  /\ \/ /\ rc_staged' = rc_staged \cup {rc_temp_dir}
        /\ rc_pc' = IF rc_op = "put_file" THEN "finally" ELSE "move"
        /\ UNCHANGED rc_pending
     \/ /\ rc_staged' \in {rc_staged, rc_staged \cup {rc_temp_dir}}
        /\ rc_pending' = "Exception"
        /\ rc_pc' = "finally_run_command"
  /\ UNCHANGED <<rc_op, rc_temp_dir, rc_dirs, rc_log, retention_vars, run_vars, exec_vars>>

\* line 176: shutil.move of the downloaded file to dest_file_path: the file
\* leaves temp_dir, or the move raises and the file stays
RcloneMove ==
  /\ rc_pc = "move"
  /\ \/ /\ rc_staged' = rc_staged \ {rc_temp_dir}
        /\ rc_pc' = "finally"
        /\ UNCHANGED rc_pending
     \/ /\ rc_pending' = "IOError"
        /\ rc_pc' = "finally_move"
        /\ UNCHANGED rc_staged
  /\ UNCHANGED <<rc_op, rc_temp_dir, rc_dirs, rc_log, retention_vars, run_vars, exec_vars>>

\* shutil.rmtree placed after the try statement instead of in its finally
\* clause: it is skipped when the body raised
RmtreeUnlessRaised(dirs, temp_dir, pending) ==
  IF pending = "none" THEN dirs \ {temp_dir} ELSE dirs

\* lines 160-161 and 177-178: finally: shutil.rmtree(temp_dir), whether the
\* body raised or not
RmtreeInFinally(dirs, temp_dir, pending) == dirs \ {temp_dir}

\* lines 160-161 and 177-178: the finally clause, and the call returns or
\* the pending exception goes on to the caller
RcloneFinally ==
  /\ rc_pc \in {"finally", "finally_copy", "finally_run_command", "finally_move"}
  /\ rc_dirs' = RmtreeInFinally(rc_dirs, rc_temp_dir, rc_pending)
  /\ rc_staged' = RmtreeInFinally(rc_staged, rc_temp_dir, rc_pending)
  /\ rc_log' = Append(rc_log,
                      RcloneDone(rc_op, rc_temp_dir,
                                 CASE rc_pc = "finally" -> "none"
                                   [] rc_pc = "finally_copy" -> "copy"
                                   [] rc_pc = "finally_run_command" -> "run_command"
                                   [] rc_pc = "finally_move" -> "move",
                                 IF rc_pending = "none" THEN "return" ELSE rc_pending))
  /\ rc_pc' = "idle"
  /\ rc_op' = "none"
  /\ rc_temp_dir' = 0
  /\ rc_pending' = "none"
  /\ UNCHANGED <<retention_vars, run_vars, exec_vars>>

RcloneNext ==
  \/ RcloneMkdtemp
  \/ RcloneCopy
  \/ RcloneRunCommand
  \/ RcloneMove
  \/ RcloneFinally

SpecRclone == RcloneInit /\ [][RcloneNext]_vars

(***************************************************************************)
(* Claims about the retention decision, under SpecRetention.               *)
(***************************************************************************)
\* the boundary instant of period i of the configuration: now - older_days*86400
BoundaryOf(i) == Now - r_retention_config[i].older_days * 86400
OlderThanEveryBoundary(ts) == \A i \in 1..Len(r_retention_config) : ts <= BoundaryOf(i)
NewerThanEveryBoundary(ts) == \A i \in 1..Len(r_retention_config) : ts > BoundaryOf(i)
\* the call has returned a list
Returned == r_result # <<>> /\ r_result[1].raised = "none"
OutdatedTs == {r_result[1].outdated[k][2] : k \in 1..Len(r_result[1].outdated)}

DistinctBoundaries ==
  \A i, j \in 1..Len(r_retention_config) :
    i # j => BoundaryOf(i) # BoundaryOf(j)
StoreOf(i) == DictGet(r_retention_config[i], "store", TRUE)
HasInterval(i) == "interval_hours" \in DOMAIN r_retention_config[i]
BucketOf(ts, i) == ts \div (r_retention_config[i].interval_hours * 3600)
\* ts lies at or before the boundary of period i and after the boundary of
\* the next-older period
InPeriod(ts, i) ==
  /\ ts <= BoundaryOf(i)
  /\ \A j \in 1..Len(r_retention_config) : BoundaryOf(j) < BoundaryOf(i) => ts > BoundaryOf(j)
\* period i is the one with the smallest boundary at or after ts, the first
\* of the configuration among those with that boundary
Judges(ts, i) ==
  /\ ts <= BoundaryOf(i)
  /\ \A j \in 1..Len(r_retention_config) :
       ts <= BoundaryOf(j) =>
         (BoundaryOf(i) < BoundaryOf(j) \/ (BoundaryOf(i) = BoundaryOf(j) /\ i <= j))
TsOf(k) == r_file_ts[k][2]
\* entry k' comes before entry k in oldest-first order
Before(k1, k) == TsOf(k1) < TsOf(k) \/ (TsOf(k1) = TsOf(k) /\ k1 < k)
\* entry k of the input is in the returned list
IsOutdated(k) ==
  Returned /\ \E o \in 1..Len(r_result[1].outdated) : r_result[1].outdated[o] = r_file_ts[k]

\* C11 as stated: for a period with store false, every entry at or before its
\* boundary and after the next-older boundary is in the outdated result of
\* the call, whatever the other periods and entries are.
C11_DroppedPeriodAllOutdated ==
  (r_result # <<>> /\ DistinctBoundaries) =>
    \A i \in 1..Len(r_retention_config) :
      ~StoreOf(i) =>
        \A k \in 1..Len(r_file_ts) : InPeriod(TsOf(k), i) => IsOutdated(k)

\* C12 as stated: for a kept period with an interval, an entry inside that
\* period is in the outdated result of the call exactly when an entry that
\* comes before it in oldest-first order lies inside the same period and the
\* same bucket floor(ts / interval): the first entry of each bucket is
\* retained and every other one is marked outdated.
C12_OnePerBucket ==
  (r_result # <<>> /\ DistinctBoundaries) =>
    \A i \in 1..Len(r_retention_config) :
      (StoreOf(i) /\ HasInterval(i)) =>
        \A k \in 1..Len(r_file_ts) :
          InPeriod(TsOf(k), i) =>
            (IsOutdated(k) <=>
               \E k1 \in 1..Len(r_file_ts) :
                 /\ InPeriod(TsOf(k1), i)
                 /\ Before(k1, k)
                 /\ BucketOf(TsOf(k1), i) = BucketOf(TsOf(k), i))

\* C13 as stated: for a kept period without interval_hours that has an entry
\* inside it, the call completes without error and returns none of the
\* entries inside that period.
C13_KeptWithoutIntervalRetainsAll ==
  (r_result # <<>> /\ DistinctBoundaries) =>
    \A i \in 1..Len(r_retention_config) :
      (StoreOf(i) /\ ~HasInterval(i)) =>
        \A k \in 1..Len(r_file_ts) :
          InPeriod(TsOf(k), i) => (Returned /\ ~IsOutdated(k))

\* the input without the entries that are newer than every boundary
OlderEntries == SelectSeq(r_file_ts, LAMBDA e : ~NewerThanEveryBoundary(e[2]))

\* C19: with a non-empty rule list the walk ends at the first entry that is
\* newer than every boundary: no such entry is returned, and the call gives
\* (returns or raises) what it gives for the input without those entries,
\* whatever store and interval settings the periods have.
C19_WalkEndsAtNewerEntries ==
  (r_result # <<>> /\ r_retention_config # <<>>) =>
    /\ \A k \in 1..Len(r_file_ts) : NewerThanEveryBoundary(TsOf(k)) => ~IsOutdated(k)
    /\ r_result[1] = GetOutdatedBackupDates(OlderEntries, r_retention_config, Now)

\* C19 witness: a call under a rule list with a store: false period whose
\* input has an entry newer than every boundary, sorted after an entry that
\* was returned.
C19_Witness ==
  /\ Returned
  /\ \E i \in 1..Len(r_retention_config) : ~StoreOf(i)
  /\ \E k, k1 \in 1..Len(r_file_ts) :
       /\ NewerThanEveryBoundary(TsOf(k))
       /\ ~NewerThanEveryBoundary(TsOf(k1))
       /\ IsOutdated(k1)

\* C20: in a call that returns, each entry is judged by the one period with
\* the smallest boundary at or after its timestamp (an entry at the boundary
\* belongs to that period, an entry past every boundary to none): it is
\* returned if that period has store false, and for a kept period exactly
\* when an earlier entry judged by the same period has its bucket. So the
\* oldest entry of a kept interval period is retained even when the entry
\* before it, judged by the preceding period, has the same bucket index.
C20_JudgedByOnePeriod ==
  Returned =>
    \A k \in 1..Len(r_file_ts) :
      /\ (\A i \in 1..Len(r_retention_config) : ~Judges(TsOf(k), i)) => ~IsOutdated(k)
      /\ \A i \in 1..Len(r_retention_config) :
           Judges(TsOf(k), i) =>
             IF ~StoreOf(i) THEN IsOutdated(k)
             ELSE (IsOutdated(k) <=>
                     \E k1 \in 1..Len(r_file_ts) :
                       /\ Judges(TsOf(k1), i)
                       /\ Before(k1, k)
                       /\ BucketOf(TsOf(k1), i) = BucketOf(TsOf(k), i))

\* C20 witness: a call that returned, where two entries of the same bucket
\* are judged by two different kept interval periods and the later one, the
\* oldest of its period, is retained.
C20_Witness ==
  /\ Returned
  /\ \E k, k1 \in 1..Len(r_file_ts) :
       \E i, i1 \in 1..Len(r_retention_config) :
         /\ i # i1
         /\ Judges(TsOf(k), i) /\ StoreOf(i) /\ HasInterval(i)
         /\ Judges(TsOf(k1), i1) /\ StoreOf(i1) /\ HasInterval(i1)
         /\ TsOf(k1) = BoundaryOf(i1)
         /\ Before(k1, k)
         /\ BucketOf(TsOf(k1), i) = BucketOf(TsOf(k), i)
         /\ ~IsOutdated(k) /\ ~IsOutdated(k1)

(***************************************************************************)
(* Claims about the run, under Spec.                                       *)
(***************************************************************************)
CallsOf(op) == {k \in 1..Len(calls) : calls[k].op = op}
CallsOn(op, i) == {k \in CallsOf(op) : calls[k].storage = i}
Ok(k) == calls[k].res = "ok"
ScriptCalls(script) == {k \in CallsOf("execute_script") : calls[k].arg = script}
PruneCalls == CallsOf("list_files") \cup CallsOf("get_outdated_backup_dates")
                \cup CallsOf("delete_file")
\* a constructor of a storage class raised in the loop of upload_backup: the
\* failed get_storage is among the first NumStorages calls of get_storage
UploadConstructorFailed ==
  \E k \in CallsOf("get_storage") :
    ~Ok(k) /\ Cardinality({j \in CallsOf("get_storage") : j <= k}) <= NumStorages
\* upload_backup was entered and has been left
UploadLeft == dest_filename # <<>> /\ pc \notin {"upload_begin", "upload"}

C3_EveryStoragePutOnce ==
  /\ \A i \in 1..NumStorages : Cardinality(CallsOn("put_file", i)) <= 1
  /\ \A k \in CallsOf("put_file") : dest_filename = <<calls[k].arg>>
  /\ (UploadLeft /\ ~UploadConstructorFailed) =>
       /\ \A i \in 1..NumStorages : Cardinality(CallsOn("put_file", i)) = 1
       /\ (outcome = "UploadException") <=> (\E k \in CallsOf("put_file") : ~Ok(k))
  /\ outcome = "UploadException" =>
       /\ \A i \in 1..NumStorages : Cardinality(CallsOn("put_file", i)) = 1
       /\ Len(errors) = Cardinality({k \in CallsOf("put_file") : ~Ok(k)})
       /\ \A i \in 1..NumStorages :
            (\E k \in CallsOn("put_file", i) : ~Ok(k))
              <=> (\E e \in 1..Len(errors) : errors[e] = i)

\* C3 witness: the aggregate exception was raised after put_file raised on
\* the first storage and was still called on a later one.
C3_Witness ==
  /\ outcome = "UploadException"
  /\ \E k \in CallsOn("put_file", 1) : ~Ok(k)
  /\ \E i \in 2..NumStorages : CallsOn("put_file", i) # {}

\* C4 as stated: when list_files or delete_file raised in the prune step (and
\* no storage constructor raised), list_files was still attempted on every
\* storage and delete_file on every name a retention decision returned.
C4_PruneFailureIsolated ==
  ( /\ pc = "done"
    /\ \E k \in CallsOf("list_files") \cup CallsOf("delete_file") : ~Ok(k)
    /\ \A k \in CallsOf("get_storage") : Ok(k) ) =>
    /\ \A i \in 1..NumStorages : CallsOn("list_files", i) # {}
    /\ \A k \in CallsOf("get_outdated_backup_dates") :
         \A e \in 1..Len(calls[k].arg) :
           \E d \in CallsOn("delete_file", calls[k].storage) :
             calls[d].arg = calls[k].arg[e][1]

\* C5: once the verify script timed out or exited non-zero for a storage,
\* nothing more is constructed, downloaded or verified, the success timestamp
\* file stays unchanged, no exception is raised or logged, and the run goes
\* through cleanup to its normal end.
C5_VerifyFailureEndsQuietly ==
  \A k \in ScriptCalls("verify") :
    ~Ok(k) =>
      /\ \A j \in (k + 1)..Len(calls) : calls[j].op = "cleanup" /\ calls[j].storage = 0
      /\ success_timestamp_file = "unchanged"
      /\ ~exception_logged
      /\ pc \in {"cleanup", "done"}
      /\ pc = "done" => (outcome = "ended" /\ backup_file = "absent" /\ Len(calls) = k + 1)

\* C5 witness: a finished run whose verify script failed for the first of
\* several storages.
C5_Witness ==
  /\ pc = "done"
  /\ NumStorages >= 2
  /\ \E k \in ScriptCalls("verify") : ~Ok(k) /\ calls[k].storage = 1

\* C6: the success timestamp file is touched only in a run where the prepare
\* script returned, put_file succeeded on every storage, nothing in the prune
\* step raised, and get_file and the verify script succeeded for every
\* storage.
C6_StampOnlyAfterFullVerification ==
  success_timestamp_file # "unchanged" =>
    /\ \E k \in ScriptCalls("prepare_backup") : Ok(k)
    /\ \A i \in 1..NumStorages :
         /\ \E k \in CallsOn("put_file", i) : Ok(k)
         /\ \E k \in CallsOn("list_files", i) : Ok(k)
         /\ \E k \in CallsOn("get_file", i) : Ok(k)
         /\ \E k \in ScriptCalls("verify") : Ok(k) /\ calls[k].storage = i
    /\ \A k \in 1..Len(calls) : Ok(k) \/ calls[k].op = "write_success_timestamp"

\* C6 witness: the file was written in a run over two storages whose prune
\* step deleted something.
C6_Witness ==
  /\ success_timestamp_file = "written"
  /\ NumStorages >= 2
  /\ CallsOf("delete_file") # {}

\* C7: when the prepare script timed out or exited non-zero the run is over
\* at once: the call of the script is the only call made (no storage is
\* constructed, no put_file, list_files, delete_file or get_file), nothing is
\* uploaded or written, and run() logged the exception and raised it again.
C7_PrepareFailureAbortsRun ==
  (\E k \in ScriptCalls("prepare_backup") : ~Ok(k)) =>
    /\ Len(calls) = 1
    /\ pc = "done"
    /\ outcome \in {"TimeoutError", "CalledProcessError"}
    /\ outcome = calls[1].res
    /\ exception_logged
    /\ dest_filename = <<>>
    /\ \A i \in 1..NumStorages : remote[i] = InitialFiles
    /\ success_timestamp_file = "unchanged"

\* C7 witness: a run over at least one storage ended by the timeout of the
\* prepare script.
C7_Witness ==
  /\ pc = "done"
  /\ outcome = "TimeoutError"
  /\ NumStorages >= 1
  /\ ScriptCalls("verify") = {}

\* C8 as stated: after a get_file that raised, for every storage class, no
\* file is at config['backup_file'].
C8_FailedGetLeavesNoFile ==
  (calls # <<>> /\ calls[Len(calls)].op = "get_file" /\ ~Ok(Len(calls))) =>
    backup_file = "absent"

\* the rule list the claims give storage i: its own 'retention' whenever its
\* storage_config has the key, the global one otherwise
OverrideOrGlobal(i) ==
  IF "retention" \in DOMAIN config.storages[i]
    THEN config.storages[i].retention
    ELSE DictGet(config, "retention", <<>>)
\* what storage i holds when the prune step lists it: every upload succeeded
ListedFiles == FileDates(SeqOfSet(InitialFiles \cup {dest_filename[1]}))

\* C14 as stated: every call of get_outdated_backup_dates of the prune step
\* gives what the function gives for the storage's own retention override
\* whenever the storage_config has one, the empty rule list included, and for
\* the global rule list only when it has none.
C14_OverrideTakesPrecedence ==
  \A k \in CallsOf("get_outdated_backup_dates") :
    LET want == GetOutdatedBackupDates(ListedFiles, OverrideOrGlobal(calls[k].storage), Now)
    IN /\ calls[k].arg = want.outdated
       /\ calls[k].res = (IF want.raised = "none" THEN "ok" ELSE want.raised)

\* C15: a call of get_outdated_backup_dates with an empty (or absent) rule
\* list returns the empty list whatever the entries are, and in a run the
\* prune step of a storage whose rule list is empty gets the empty list and
\* calls delete_file on that storage zero times.
C15_EmptyRulesDeleteNothing ==
  /\ (r_result # <<>> /\ r_retention_config = <<>>) =>
       r_result[1] = [raised |-> "none", outdated |-> <<>>]
  /\ \A k \in CallsOf("get_outdated_backup_dates") :
       EffectiveRetention(config.storages[calls[k].storage], config) = <<>> =>
         /\ calls[k].arg = <<>>
         /\ calls[k].res = "ok"
         /\ CallsOn("delete_file", calls[k].storage) = {}

\* C15 witness: the prune step is over for a storage with an empty rule list
\* that holds backups older than the new one, and the storage still holds all
\* of them.
C15_Witness ==
  /\ pc = "verify"
  /\ \E k \in CallsOf("get_outdated_backup_dates") :
       /\ EffectiveRetention(config.storages[calls[k].storage], config) = <<>>
       /\ InitialFiles \subseteq remote[calls[k].storage]
       /\ Len(ListedFiles) > 1

\* C16: when a verify download starts, cleanup has just run and no file is
\* at config['backup_file']; and when the run has ended normally, also after
\* a verification that failed, cleanup was the last thing done, after the
\* verify step, and no file is at config['backup_file'].
C16_CleanupBeforeDownloadAndAtEnd ==
  /\ pc = "verify_download" =>
       /\ backup_file = "absent"
       /\ calls[Len(calls)] = Call("cleanup", idx, calls[Len(calls)].arg, "ok")
  /\ \A k \in CallsOf("get_file") :
       k > 1 /\ calls[k - 1].op = "cleanup" /\ calls[k - 1].storage = calls[k].storage
  /\ outcome = "ended" =>
       /\ backup_file = "absent"
       /\ calls[Len(calls)] = Call("cleanup", 0, calls[Len(calls)].arg, "ok")
       /\ \A k \in CallsOf("get_file") \cup ScriptCalls("verify") : k < Len(calls)

\* C16 witness: a run that ended after a failed verification, in which the
\* cleanup before a download and the cleanup at the end each removed a file.
C16_Witness ==
  /\ outcome = "ended"
  /\ \E k \in ScriptCalls("verify") : ~Ok(k)
  /\ \E k \in CallsOf("get_file") : calls[k - 1].arg = "complete"
  /\ calls[Len(calls)].arg = "complete"

\* C18: every call of delete_file on a restic storage is rejected with
\* NotImplementedError, which ends the run, and the storage holds after the
\* call the names it held before it (the ones it had at the start and the
\* backup just uploaded): nothing was removed.
C18_ResticDeleteRejects ==
  \A k \in CallsOf("delete_file") :
    StorageType(calls[k].storage) = "restic" =>
      /\ calls[k].res = "NotImplementedError"
      /\ outcome = "NotImplementedError"
      /\ k = Len(calls)
      /\ remote[calls[k].storage] = InitialFiles \cup {dest_filename[1]}

\* C18 witness: delete_file was called on a restic storage for a name the
\* storage holds.
C18_Witness ==
  \E k \in CallsOf("delete_file") :
    /\ StorageType(calls[k].storage) = "restic"
    /\ calls[k].arg \in InitialFiles
    /\ pc = "done"

(***************************************************************************)
(* Claims about the rclone storage, under SpecRclone.                      *)
(***************************************************************************)
\* C17: no temporary directory made by put_file or get_file of the rclone
\* storage outlives its call: between two calls none exists, whether the
\* calls returned or raised (from shutil.copy, from the rclone command or
\* from shutil.move), and during a call only the one of that call exists.
C17_TempDirRemoved ==
  /\ rc_dirs \subseteq {rc_temp_dir}
  /\ rc_pc = "idle" => (rc_dirs = {} /\ rc_staged = {})
  /\ \A k \in 1..Len(rc_log) : rc_log[k].temp_dir \notin rc_dirs

\* C17 witness: between two calls, after a call that raised from shutil.copy,
\* one that raised from the rclone command and one that raised from
\* shutil.move, each of which had made its directory.
C17_Witness ==
  /\ rc_pc = "idle"
  /\ \A at \in {"copy", "run_command", "move"} :
       \E k \in 1..Len(rc_log) :
         rc_log[k].at = at /\ rc_log[k].temp_dir # 0 /\ rc_log[k].res # "return"

(***************************************************************************)
(* Claims about execute_script, under SpecExec.                            *)
(***************************************************************************)
\* C9 as stated, for the case where the kill of the watchdog reaches the
\* running script: when the timeout elapsed with the script still running and
\* the watchdog killed it, execute_script raises TimeoutError, not a
\* process-exit error, whatever the interleaving of the two threads.
C9_TimeoutRaisesTimeoutError ==
  (ExecDone /\ e_result # "WaitException"
     /\ "timeout_while_running" \in e_history /\ "killed_running" \in e_history) =>
    e_result = "TimeoutError"

\* C10 as stated: the timer is cancelled when execute_script is left and no
\* callback of the timer runs after that; and for a script that exited with
\* status 0 before the timeout elapsed, the watchdog sends no kill after the
\* exit and execute_script returns without raising.
C10_NoKillAfterExit ==
  /\ ExecDone => e_finished
  /\ "callback_after_return" \notin e_history
  /\ "exit0_before_timeout" \in e_history =>
       /\ "kill_after_exit" \notin e_history
       /\ (ExecDone /\ e_result # "WaitException") => e_result = "return"

====
